---- MODULE Spec2Model ----
(***************************************************************************)
(* Model of the network simulation engine of simlink_backend:              *)
(* NetworkSimulator (src/core/simulator.py, duplicated in src/main.py) and *)
(* the event loop simulate_network_events (src/main.py).                   *)
(*                                                                         *)
(* A fully qualified interface reference "<device-id>.<interface-name>" is *)
(* modelled as the pair <<device-id, interface-name>>; netid_to_id takes   *)
(* the part before the first dot.  Python floats are IEEE-754 binary64     *)
(* values, modelled exactly as mantissa * 2^exponent with a 53-bit         *)
(* mantissa held in 15-bit limbs and round-to-nearest-even.                *)
(***************************************************************************)
EXTENDS Integers, Sequences, FiniteSets, TLC

(***************************************************************************)
(* Bounds of the model.                                                    *)
(***************************************************************************)
\* events consumed by one run of simulate_network_events
MaxEvents == 2
\* longest connection list
MaxConns == 1
\* largest event.count of the single-ping specification
MaxPingCount == 3
\* event.count of the scenario pc1 - switch1 - pc2
ScenarioCount == 5

(***************************************************************************)
(* binary64 arithmetic on non-negative values.                             *)
(***************************************************************************)
LimbBits == 15
LimbBase == 32768
MantBits == 53
DivGuardLimbs == 2

RECURSIVE Pow2(_)
Pow2(n) == IF n = 0 THEN 1 ELSE 2 * Pow2(n - 1)

RECURSIVE NatBitLen(_)
NatBitLen(n) == IF n = 0 THEN 0 ELSE 1 + NatBitLen(n \div 2)

RECURSIVE BigNorm(_)
BigNorm(s) ==
    IF s = <<>> THEN <<>>
    ELSE IF s[Len(s)] = 0 THEN BigNorm(SubSeq(s, 1, Len(s) - 1)) ELSE s

RECURSIVE BigFromNat(_)
BigFromNat(n) ==
    IF n = 0 THEN <<>> ELSE <<n % LimbBase>> \o BigFromNat(n \div LimbBase)

RECURSIVE BigMulCarry(_, _, _)
BigMulCarry(s, k, carry) ==
    IF s = <<>> THEN BigFromNat(carry)
    ELSE LET t == s[1] * k + carry
         IN  <<t % LimbBase>> \o BigMulCarry(Tail(s), k, t \div LimbBase)

BigMulSmall(s, k) == BigNorm(BigMulCarry(s, k, 0))

RECURSIVE BigDivRem(_, _, _)
BigDivRem(s, k, i) ==
    IF i = 0 THEN [q |-> <<>>, r |-> 0]
    ELSE LET hi == BigDivRem(s, k, i - 1)
             t  == hi.r * LimbBase + s[Len(s) - i + 1]
         IN  [q |-> <<t \div k>> \o hi.q, r |-> t % k]

BigDivSmall(s, k) ==
    LET d == BigDivRem(s, k, Len(s)) IN [q |-> BigNorm(d.q), r |-> d.r]

RECURSIVE BigAddCarry(_, _, _)
BigAddCarry(a, b, carry) ==
    IF a = <<>> /\ b = <<>> THEN BigFromNat(carry)
    ELSE LET x == IF a = <<>> THEN 0 ELSE a[1]
             y == IF b = <<>> THEN 0 ELSE b[1]
             t == x + y + carry
         IN  <<t % LimbBase>> \o
             BigAddCarry(IF a = <<>> THEN a ELSE Tail(a),
                         IF b = <<>> THEN b ELSE Tail(b), t \div LimbBase)

BigAdd(a, b) == BigNorm(BigAddCarry(a, b, 0))

BigBitLen(s) ==
    IF s = <<>> THEN 0 ELSE LimbBits * (Len(s) - 1) + NatBitLen(s[Len(s)])

RECURSIVE BigLess(_, _)
BigLess(a, b) ==
    IF Len(a) # Len(b) THEN Len(a) < Len(b)
    ELSE IF a = <<>> THEN FALSE
    ELSE IF a[Len(a)] # b[Len(b)] THEN a[Len(a)] < b[Len(b)]
    ELSE BigLess(SubSeq(a, 1, Len(a) - 1), SubSeq(b, 1, Len(b) - 1))

BigShl(s, n) ==
    IF s = <<>> THEN <<>>
    ELSE BigMulSmall([i \in 1..(n \div LimbBits) |-> 0] \o s, Pow2(n % LimbBits))

BigShr(s, n) ==
    LET w    == n \div LimbBits
        low  == SubSeq(s, 1, IF w < Len(s) THEN w ELSE Len(s))
        high == SubSeq(s, w + 1, Len(s))
        d    == BigDivSmall(high, Pow2(n % LimbBits))
    IN  [q |-> d.q, sticky |-> d.r # 0 \/ \E i \in DOMAIN low : low[i] # 0]

FloatZero == [m |-> <<>>, e |-> 0]

FloatRound(m, e, sticky) ==
    LET L == BigBitLen(m)
    IN  IF L = 0 THEN FloatZero
        ELSE IF L <= MantBits THEN [m |-> BigShl(m, MantBits - L), e |-> e - (MantBits - L)]
        ELSE LET s    == L - MantBits
                 q1   == BigShr(m, s - 1)
                 rb   == q1.q[1] % 2
                 q    == BigDivSmall(q1.q, 2).q
                 st   == sticky \/ q1.sticky
                 up   == rb = 1 /\ (st \/ q[1] % 2 = 1)
                 r    == IF up THEN BigAdd(q, <<1>>) ELSE q
             IN  IF BigBitLen(r) > MantBits
                 THEN [m |-> BigDivSmall(r, 2).q, e |-> e + s + 1]
                 ELSE [m |-> r, e |-> e + s]

FloatFromNat(n) == FloatRound(BigFromNat(n), 0, FALSE)

FloatMulSmall(x, k) == FloatRound(BigMulSmall(x.m, k), x.e, FALSE)

FloatDivSmall(x, k) ==
    LET d == BigDivSmall(BigShl(x.m, DivGuardLimbs * LimbBits), k)
    IN  FloatRound(d.q, x.e - DivGuardLimbs * LimbBits, d.r # 0)

FloatAdd(x, y) ==
    IF x.m = <<>> THEN y
    ELSE IF y.m = <<>> THEN x
    ELSE IF x.e >= y.e
         THEN FloatRound(BigAdd(BigShl(x.m, x.e - y.e), y.m), y.e, FALSE)
         ELSE FloatRound(BigAdd(BigShl(y.m, y.e - x.e), x.m), x.e, FALSE)

FloatLess(x, y) ==
    IF y.m = <<>> THEN FALSE
    ELSE IF x.m = <<>> THEN TRUE
    ELSE IF x.e # y.e THEN x.e < y.e
    ELSE BigLess(x.m, y.m)

FloatLeq(x, y) == x = y \/ FloatLess(x, y)

(***************************************************************************)
(* Python values.                                                          *)
(***************************************************************************)
\* None, where the other value is a record (an interface, a float)
None == [none |-> TRUE]

\* int / int (true division) and int * 100.0, as in line 175
IntTrueDiv(a, b) == FloatDivSmall(FloatFromNat(a), b)

RECURSIVE FloatSum(_)
\* sum(rtts): 0 + rtts[0] + rtts[1] + ..., left to right
FloatSum(xs) ==
    IF xs = <<>> THEN FloatZero
    ELSE FloatAdd(FloatSum(SubSeq(xs, 1, Len(xs) - 1)), xs[Len(xs)])

RECURSIVE FloatMin(_)
FloatMin(xs) ==
    IF Len(xs) = 1 THEN xs[1]
    ELSE LET m == FloatMin(SubSeq(xs, 1, Len(xs) - 1))
         IN  IF FloatLess(xs[Len(xs)], m) THEN xs[Len(xs)] ELSE m

RECURSIVE FloatMax(_)
FloatMax(xs) ==
    IF Len(xs) = 1 THEN xs[1]
    ELSE LET m == FloatMax(SubSeq(xs, 1, Len(xs) - 1))
         IN  IF FloatLess(m, xs[Len(xs)]) THEN xs[Len(xs)] ELSE m

(***************************************************************************)
(* Topology: devices (hosts and switches), interfaces, connections.        *)
(***************************************************************************)
Ip1 == "10.0.0.1"
Ip2 == "10.0.0.2"
\* an address no interface owns
IpAbsent == "10.0.0.9"
Mac1 == "aa:00:00:00:00:01"
Mac2 == "aa:00:00:00:00:02"

\* Interface of src/pc.py: a host interface has a mac and an ip
Interface(name, mac, ip) == [name |-> name, mac |-> mac, ip |-> ip]

\* SwitchInterface of src/switch.py: no mac and no ip field
SwitchInterface(name, peer) == [name |-> name, connected_to |-> peer]

PC(id, interfaces) == [id |-> id, type |-> "PC", interfaces |-> interfaces]

Switch(id, interfaces) == [id |-> id, type |-> "Switch", interfaces |-> interfaces]

Pc1 == PC("pc1", <<Interface("eth0", Mac1, Ip1)>>)
Pc2 == PC("pc2", <<Interface("eth0", Mac2, Ip2)>>)
Switch1 ==
    Switch("switch1", <<SwitchInterface("port1", "pc1.eth0"),
                        SwitchInterface("port2", "pc2.eth0")>>)

\* the device dictionary, in insertion order (the order of "nodes")
\* without a switch, and with the switch last, in the middle and first
DeviceDicts ==
    { <<Pc1, Pc2>>, <<Pc1, Pc2, Switch1>>, <<Pc1, Switch1, Pc2>>,
      <<Switch1, Pc1, Pc2>> }

Connection(from_interface, to_interface) ==
    [from_interface |-> from_interface, to_interface |-> to_interface]

LinkPc1Switch1 == Connection(<<"pc1", "eth0">>, <<"switch1", "port1">>)
LinkSwitch1Pc2 == Connection(<<"switch1", "port2">>, <<"pc2", "eth0">>)
LinkPc2Pc1 == Connection(<<"pc2", "eth0">>, <<"pc1", "eth0">>)

\* the links pc1 - switch1 and switch1 - pc2, and a direct link pc2 - pc1
Links == {LinkPc1Switch1, LinkSwitch1Pc2, LinkPc2Pc1}

\* a connection with its endpoints in the other order
Swapped(c) == Connection(c.to_interface, c.from_interface)

ConnectionLists(max) == UNION { [1..n -> Links] : n \in 0..max }

\* utils.netid_to_id: netid.split(".")[0]
netid_to_id(netid) == netid[1]

DeviceIds(devs) == { devs[i].id : i \in DOMAIN devs }

\* self.devices[device_id], for a device_id in the dictionary
DeviceById(devs, device_id) ==
    devs[CHOOSE i \in DOMAIN devs : devs[i].id = device_id]

(***************************************************************************)
(* NetworkSimulator: pure parts.                                           *)
(***************************************************************************)
\* Outcome of a lookup: a value, Python's None, or an exception raised
Found(device_id, interface) ==
    [kind |-> "value", device_id |-> device_id, interface |-> interface]

NotFound == [kind |-> "none"]

Raise(exc) == [kind |-> "raise", exc |-> exc]

RECURSIVE ScanInterfaces(_, _, _, _)
\* lines 32-34: reading .ip of an interface without that field
\* (a SwitchInterface) raises AttributeError
ScanInterfaces(device_id, interfaces, i, ip) ==
    IF i > Len(interfaces) THEN NotFound
    ELSE IF "ip" \notin DOMAIN interfaces[i] THEN Raise("AttributeError")
    ELSE IF interfaces[i].ip = ip THEN Found(device_id, interfaces[i])
    ELSE ScanInterfaces(device_id, interfaces, i + 1, ip)

RECURSIVE ScanDevices(_, _, _)
\* lines 31-35: devices in dictionary order
ScanDevices(devs, d, ip) ==
    IF d > Len(devs) THEN NotFound
    ELSE LET r == ScanInterfaces(devs[d].id, devs[d].interfaces, 1, ip)
         IN  IF r.kind = "none" THEN ScanDevices(devs, d + 1, ip) ELSE r

get_interface_by_ip(devs, ip) == ScanDevices(devs, 1, ip)

\* None or the empty string, where the other value is a string: both falsy
NoneStr == ""

\* hard bound on the length of a path (line 210)
MaxPathLen == 100

\* lines 195-202: the device at the other end of the first connection, in
\* list order from position i on, that has current_id at one end; the end
\* from_interface is tested first
FirstMatch(conns, i, current_id) ==
    LET touching == { j \in i..Len(conns) :
                        \/ netid_to_id(conns[j].from_interface) = current_id
                        \/ netid_to_id(conns[j].to_interface) = current_id }
    IN  IF touching = {} THEN NoneStr
        ELSE LET first == CHOOSE j \in touching : \A k \in touching : j <= k
             IN  IF netid_to_id(conns[first].from_interface) = current_id
                 THEN netid_to_id(conns[first].to_interface)
                 ELSE netid_to_id(conns[first].from_interface)

\* The local variables of a call of get_network_path; pc is "while" at the
\* test of line 194 and "returned" after a return, ret the value returned
PathFrame(source_id, dest_id, path, current_id, at, ret) ==
    [method |-> "get_network_path", source_id |-> source_id, dest_id |-> dest_id,
     path |-> path, current_id |-> current_id, pc |-> at, ret |-> ret]

\* a call whose path does not start with the source
PathCallEmpty(source_id, dest_id) ==
    PathFrame(source_id, dest_id, <<>>, source_id, "while", <<>>)

\* lines 191-192
PathCall(source_id, dest_id) ==
    PathFrame(source_id, dest_id, <<source_id>>, source_id, "while", <<>>)

\* line 213
PathReturn(frame, ret) == [frame EXCEPT !.pc = "returned", !.ret = ret]

\* lines 195-211: the body of the while loop
PathIteration(conns, frame) ==
    LET next_hop == FirstMatch(conns, 1, frame.current_id)
    IN  IF next_hop = NoneStr \/ \E i \in DOMAIN frame.path : frame.path[i] = next_hop
        THEN PathReturn(frame, <<>>)
        ELSE LET appended == [frame EXCEPT !.path = Append(@, next_hop),
                                           !.current_id = next_hop]
             IN  IF Len(appended.path) > MaxPathLen
                 THEN PathReturn(appended, <<>>)
                 ELSE appended

\* a loop whose body runs before its test is looked at
PathStepUntested(conns, frame) == PathIteration(conns, frame)

\* lines 194 and 213: the test of the while loop, then its body or the
\* return of the path
PathStep(conns, frame) ==
    IF frame.current_id # frame.dest_id
    THEN PathIteration(conns, frame)
    ELSE PathReturn(frame, frame.path)

RECURSIVE WalkPath(_, _)
\* lines 194-213: the while loop, run until the call returns
WalkPath(conns, frame) ==
    IF frame.pc = "returned" THEN frame.ret
    ELSE WalkPath(conns, PathStep(conns, frame))

get_network_path(conns, source_id, dest_id) ==
    WalkPath(conns, PathCall(source_id, dest_id))

create_error_log(event_id, error_message, now) ==
    [event_id |-> event_id, status |-> "failed", action |-> "ping",
     error |-> error_message, timestamp |-> now]

(***************************************************************************)
(* ARP resolution.                                                         *)
(***************************************************************************)
\* an entry stored without its completeness flag set
ARPEntryIncomplete(ip, mac, timestamp, is_complete) ==
    [ip |-> ip, mac |-> mac, timestamp |-> timestamp, is_complete |-> FALSE]

ARPEntry(ip, mac, timestamp, is_complete) ==
    [ip |-> ip, mac |-> mac, timestamp |-> timestamp, is_complete |-> is_complete]

\* a cache check that never hits
ArpCacheHitNever(arp, source_device_id, target_ip) == FALSE

\* lines 48-51: a complete entry for target_ip in the table of the device
ArpCacheHit(arp, source_device_id, target_ip) ==
    /\ target_ip \in DOMAIN arp[source_device_id]
    /\ arp[source_device_id][target_ip].is_complete

\* a cache write that replaces the table of the device
ArpStoreAlone(arp, source_device_id, target_ip, entry) ==
    [arp EXCEPT ![source_device_id] = (target_ip :> entry)]

\* a cache write into the table of every device
ArpStoreEverywhere(arp, source_device_id, target_ip, entry) ==
    [d \in DOMAIN arp |->
        [ip \in DOMAIN arp[d] \cup {target_ip} |->
            IF ip = target_ip THEN entry ELSE arp[d][ip]]]

\* line 71: self.arp_table[source_device_id][target_ip] = entry
ArpStore(arp, source_device_id, target_ip, entry) ==
    [arp EXCEPT ![source_device_id] =
        [ip \in DOMAIN @ \cup {target_ip} |-> IF ip = target_ip THEN entry ELSE @[ip]]]

\* Outcome of resolve_arp: the value returned (a mac, or NoneStr for None) or
\* the exception raised, and the arp table it leaves
ArpOutcome(kind, mac, exc, arp) ==
    [kind |-> kind, mac |-> mac, exc |-> exc, arp_table |-> arp]

\* a resolution that nobody answers
ResolveArpUnanswered(devs, arp, source_device_id, source_interface, target_ip, now) ==
    ArpOutcome("value", NoneStr, "", arp)

\* lines 43-87
resolve_arp(devs, arp, source_device_id, source_interface, target_ip, now) ==
    IF ArpCacheHit(arp, source_device_id, target_ip)
    THEN ArpOutcome("value", arp[source_device_id][target_ip].mac, "", arp)
    ELSE LET target_device == get_interface_by_ip(devs, target_ip)
         IN  IF target_device.kind = "raise"
             THEN ArpOutcome("raise", NoneStr, target_device.exc, arp)
             ELSE IF target_device.kind = "none"
             THEN ArpOutcome("value", NoneStr, "", arp)
             \* lines 65-66: arp_request_log reads source_interface.mac and .ip
             ELSE IF {"mac", "ip"} \ DOMAIN source_interface # {}
             THEN ArpOutcome("raise", NoneStr, "AttributeError", arp)
             \* line 73: reads target_interface.mac
             ELSE IF "mac" \notin DOMAIN target_device.interface
             THEN ArpOutcome("raise", NoneStr, "AttributeError", arp)
             ELSE ArpOutcome("value", target_device.interface.mac, "",
                             ArpStore(arp, source_device_id, target_ip,
                                      ARPEntry(target_ip, target_device.interface.mac,
                                               now, TRUE)))

(***************************************************************************)
(* simulate_ping.                                                          *)
(***************************************************************************)
\* random.uniform(0.1, 2.0): the two ends of the range
RttLow == IntTrueDiv(1, 10)
RttHigh == FloatFromNat(2)
RttDraws == {RttLow, RttHigh}

EchoPacket(src_mac, dest_mac, src_ip, dest_ip) ==
    [src_mac |-> src_mac, dest_mac |-> dest_mac, src_ip |-> src_ip,
     dest_ip |-> dest_ip, ttl |-> 64]

\* a record that carries an echo reply whether or not the packet was lost
IcmpLogReplyAlways(seq, packet_lost, rtt, source_interface, dest_mac, destination_ip) ==
    [sequence |-> seq, success |-> ~packet_lost,
     rtt |-> IF packet_lost THEN None ELSE rtt,
     echo_request |-> EchoPacket(source_interface.mac, dest_mac,
                                 source_interface.ip, destination_ip),
     echo_reply |-> EchoPacket(dest_mac, source_interface.mac,
                               destination_ip, source_interface.ip)]

\* lines 134-155: the record of one packet
IcmpLog(seq, packet_lost, rtt, source_interface, dest_mac, destination_ip) ==
    LET icmp_log ==
            [sequence |-> seq, success |-> ~packet_lost,
             rtt |-> IF packet_lost THEN None ELSE rtt,
             echo_request |-> EchoPacket(source_interface.mac, dest_mac,
                                         source_interface.ip, destination_ip)]
    IN  IF packet_lost THEN icmp_log
        ELSE [echo_reply |-> EchoPacket(dest_mac, source_interface.mac,
                                        destination_ip, source_interface.ip)]
             @@ icmp_log

\* the rtt of every packet, lost or not
SuccessfulRttsOfAll(lost, rtt, n) == [i \in 1..n |-> rtt[i]]

RECURSIVE SuccessfulRtts(_, _, _)
\* lines 130-132: the rtt of every packet that was not lost, in order
SuccessfulRtts(lost, rtt, n) ==
    IF n = 0 THEN <<>>
    ELSE IF lost[n] THEN SuccessfulRtts(lost, rtt, n - 1)
    ELSE Append(SuccessfulRtts(lost, rtt, n - 1), rtt[n])

\* line 168 with every packet required
PingStatusAllReceived(success_count, count) ==
    IF success_count = count THEN "success" ELSE "failed"

\* line 168
PingStatus(success_count, count) ==
    IF success_count > 0 THEN "success" ELSE "failed"

\* line 175 with the received share in place of the lost share
LossPercentageOfReceived(count, success_count) ==
    FloatMulSmall(IntTrueDiv(success_count, count), 100)

\* line 175: ((event.count - success_count) / event.count) * 100
LossPercentage(count, success_count) ==
    FloatMulSmall(IntTrueDiv(count - success_count, count), 100)

\* lines 176-180
RoundTripTime(rtts) ==
    [min |-> IF rtts # <<>> THEN FloatMin(rtts) ELSE None,
     max |-> IF rtts # <<>> THEN FloatMax(rtts) ELSE None,
     avg |-> IF rtts # <<>> THEN FloatDivSmall(FloatSum(rtts), Len(rtts)) ELSE None]

\* an empty path reported as a failure
PingResultNoRouteFails(event, success_count, rtts, logs, path_taken, now) ==
    IF path_taken = <<>>
    THEN create_error_log(event.id, "No route to host", now)
    ELSE [event_id |-> event.id,
          status |-> PingStatus(success_count, event.count),
          action |-> "ping",
          details |->
              [source |-> event.source_interface,
               destination_ip |-> event.destination_ip,
               packets_sent |-> event.count,
               packets_received |-> success_count,
               loss_percentage |-> LossPercentage(event.count, success_count),
               round_trip_time_ms |-> RoundTripTime(rtts),
               icmp_packets |-> logs,
               path_taken |-> path_taken],
          timestamp |-> now]

\* lines 165-185, for event.count # 0
PingResult(event, success_count, rtts, logs, path_taken, now) ==
    [event_id |-> event.id,
     status |-> PingStatus(success_count, event.count),
     action |-> "ping",
     details |->
         [source |-> event.source_interface,
          destination_ip |-> event.destination_ip,
          packets_sent |-> event.count,
          packets_received |-> success_count,
          loss_percentage |-> LossPercentage(event.count, success_count),
          round_trip_time_ms |-> RoundTripTime(rtts),
          icmp_packets |-> logs,
          path_taken |-> path_taken],
     timestamp |-> now]

\* Outcome of simulate_ping: the result returned or the exception raised,
\* and the arp table it leaves
PingReturn(result, arp) == [kind |-> "return", result |-> result, arp_table |-> arp]

PingRaise(exc, arp) == [kind |-> "raise", exc |-> exc, arp_table |-> arp]

\* a path looked up only when a reply came back
SendPacketsPathOfReplies(conns, arp, event, source, dest_device_id, dest_mac, lost, rtt, now) ==
    IF event.count > 0 /\ {"mac", "ip"} \ DOMAIN source.interface # {}
    THEN PingRaise("AttributeError", arp)
    ELSE IF event.count = 0 THEN PingRaise("ZeroDivisionError", arp)
    ELSE LET logs == [i \in 1..event.count |->
                         IcmpLog(i - 1, lost[i], rtt[i], source.interface, dest_mac,
                                 event.destination_ip)]
             rtts == SuccessfulRtts(lost, rtt, event.count)
         IN  PingReturn(PingResult(event, Len(rtts), rtts, logs,
                                   IF rtts = <<>> THEN <<>>
                                   ELSE get_network_path(conns, source.device_id,
                                                         dest_device_id), now),
                        arp)

\* lines 122-187, after ARP resolution gave dest_mac
SendPackets(conns, arp, event, source, dest_device_id, dest_mac, lost, rtt, now) ==
    \* lines 140-142: the echo request reads source_interface.mac and .ip
    IF event.count > 0 /\ {"mac", "ip"} \ DOMAIN source.interface # {}
    THEN PingRaise("AttributeError", arp)
    \* line 175: division by event.count
    ELSE IF event.count = 0 THEN PingRaise("ZeroDivisionError", arp)
    ELSE LET logs == [i \in 1..event.count |->
                         IcmpLog(i - 1, lost[i], rtt[i], source.interface, dest_mac,
                                 event.destination_ip)]
             rtts == SuccessfulRtts(lost, rtt, event.count)
         IN  PingReturn(PingResult(event, Len(rtts), rtts, logs,
                                   get_network_path(conns, source.device_id,
                                                    dest_device_id), now),
                        arp)

\* lines 89-187.  lost[i] and rtt[i] are the draws of lines 127 and 128 for
\* packet i
simulate_ping(devs, conns, arp, event, lost, rtt, now) ==
    LET source_device_id == netid_to_id(event.source_interface)
    IN
    \* line 97: self.devices[source_device_id]
    IF source_device_id \notin DeviceIds(devs) THEN PingRaise("KeyError", arp)
    ELSE
    LET interfaces == DeviceById(devs, source_device_id).interfaces
        matching == { i \in DOMAIN interfaces :
                        <<source_device_id, interfaces[i].name>> = event.source_interface }
    IN
    \* lines 98-102: next() of an exhausted generator
    IF matching = {} THEN PingRaise("StopIteration", arp)
    ELSE
    LET source_interface ==
            interfaces[CHOOSE i \in matching : \A j \in matching : i <= j]
        dest_device == get_interface_by_ip(devs, event.destination_ip)
    IN
    \* line 105: an interface object is never falsy
    IF source_interface = None
    THEN PingReturn(create_error_log(event.id, "Source interface not found", now), arp)
    ELSE IF dest_device.kind = "raise" THEN PingRaise(dest_device.exc, arp)
    ELSE IF dest_device.kind = "none"
    THEN PingReturn(create_error_log(event.id, "Destination IP not reachable", now), arp)
    ELSE
    LET resolved == resolve_arp(devs, arp, source_device_id, source_interface,
                                event.destination_ip, now)
    IN
    IF resolved.kind = "raise" THEN PingRaise(resolved.exc, resolved.arp_table)
    ELSE IF resolved.mac = NoneStr
    THEN PingReturn(create_error_log(event.id, "ARP resolution failed", now),
                    resolved.arp_table)
    ELSE SendPackets(conns, resolved.arp_table, event,
                     Found(source_device_id, source_interface),
                     dest_device.device_id, resolved.mac, lost, rtt, now)

(***************************************************************************)
(* cl.py: the Switch with its own ARP table and packet buffer.             *)
(*                                                                         *)
(* forwarded is the list of the forward_packet calls made, each with the   *)
(* port the packet went to (0: dropped), that is, what the method prints.  *)
(***************************************************************************)
\* lines 85-90
ClSwitch ==
    [arp_table |-> <<>>, ports |-> [port \in {1, 2} |-> NoneStr],
     packet_buffer |-> <<>>, forwarded |-> <<>>]

\* d[key] = value
DictSet(d, key, value) ==
    [k \in DOMAIN d \cup {key} |-> IF k = key THEN value ELSE d[k]]

\* lines 130-142
forward_packet(sw, src_ip, dst_ip, src_mac, dst_mac) ==
    LET matching == { port \in DOMAIN sw.ports : sw.ports[port] = dst_mac }
        port == IF matching = {} THEN 0
                ELSE CHOOSE p \in matching : \A q \in matching : p <= q
    IN  [sw EXCEPT !.forwarded =
            Append(@, [src_ip |-> src_ip, dst_ip |-> dst_ip, src_mac |-> src_mac,
                       dst_mac |-> dst_mac, port |-> port])]

RECURSIVE ForwardBuffered(_, _, _, _, _)
\* lines 118-120: the loop over self.packet_buffer[dst_ip]
ForwardBuffered(sw, buffered, i, dst_ip, dst_mac) ==
    IF i > Len(buffered) THEN sw
    ELSE ForwardBuffered(forward_packet(sw, buffered[i][1], dst_ip, buffered[i][2],
                                        dst_mac),
                         buffered, i + 1, dst_ip, dst_mac)

\* lines 108-120
handle_arp_reply(sw, src_ip, dst_ip, src_mac, dst_mac) ==
    LET learned == [sw EXCEPT !.arp_table =
                        DictSet(DictSet(@, src_ip, src_mac), dst_ip, dst_mac)]
    IN  IF dst_ip \in DOMAIN learned.packet_buffer
        THEN ForwardBuffered(learned, learned.packet_buffer[dst_ip], 1, dst_ip, dst_mac)
        ELSE learned

\* lines 122-128
send_arp_reply(sw, src_ip, dst_ip, src_mac, dst_mac) ==
    handle_arp_reply(sw, src_ip, dst_ip, src_mac, dst_mac)

\* lines 92-106
handle_arp_request(sw, src_ip, dst_ip, src_mac) ==
    IF dst_ip \in DOMAIN sw.arp_table
    THEN \* line 102: send_arp_reply(src_ip, dst_ip, dst_mac, src_mac)
         send_arp_reply(sw, src_ip, dst_ip, sw.arp_table[dst_ip], src_mac)
    ELSE \* line 106: a defaultdict makes the list on first use
         [sw EXCEPT !.packet_buffer =
            DictSet(@, dst_ip,
                    Append(IF dst_ip \in DOMAIN @ THEN @[dst_ip] ELSE <<>>,
                           <<src_ip, src_mac>>))]

\* lines 144-152
connect_device(sw, port, mac_address) ==
    IF port \in DOMAIN sw.ports THEN [sw EXCEPT !.ports[port] = mac_address] ELSE sw

(***************************************************************************)
(* simulate_network_events: the event loop.                                *)
(*                                                                         *)
(* events is the part of the input list the loop has consumed: the list is *)
(* revealed one event at a time, and the loop may find it exhausted after  *)
(* any event.                                                              *)
(***************************************************************************)
VARIABLES
    devices,        \* self.devices, in dictionary order
    connections,    \* self.connections
    arp_table,      \* self.arp_table: device_id -> (ip -> ARPEntry)
    events,         \* the events consumed so far, in order
    results,        \* the list results of simulate_network_events
    clock,          \* time.time()
    pc,             \* "loop", "returned" (line 263) or "raised"
    exc,            \* the exception that left simulate_network_events
    calls,          \* the calls made to single methods of the simulator,
                    \* each with what it returned or raised
    switch          \* the Switch object of cl.py

vars ==
    <<devices, connections, arp_table, events, results, clock, pc, exc, calls, switch>>

Event(id, type, source_interface, destination_ip, count, timeout) ==
    [id |-> id, type |-> type, source_interface |-> source_interface,
     destination_ip |-> destination_ip, count |-> count, timeout |-> timeout]

\* an existing host interface of each host, an interface name the host does
\* not have, a device that is not in the topology, a switch port
SourceInterfaces ==
    { <<"pc1", "eth0">>, <<"pc2", "eth0">>, <<"pc1", "eth1">>,
      <<"pc9", "eth0">>, <<"switch1", "port1">> }

DestinationIps == {Ip1, Ip2, IpAbsent}

\* the ping events the loop may be given as its id-th event, without a
\* packet and with one packet
PingEvents(id) ==
    { Event(id, "ping", s, d, c, 1000) :
        s \in SourceInterfaces, d \in DestinationIps, c \in {0, 1} }

\* events of another type: one that would do as a ping event and one whose
\* source device is not in the topology
OtherEvents(id) ==
    { Event(id, "traceroute", s, Ip2, 1, 1000) :
        s \in {<<"pc1", "eth0">>, <<"pc9", "eth0">>} }

\* the one event of the single-ping specification
SinglePingEvents(id) ==
    { Event(id, "ping", s, d, c, 1000) :
        s \in {<<"pc1", "eth0">>, <<"pc2", "eth0">>, <<"switch1", "port1">>},
        d \in {Ip1, Ip2}, c \in 0..MaxPingCount }

\* the event of the scenario: pc1.eth0 pings the address of pc2
ScenarioEvent(id) == Event(id, "ping", <<"pc1", "eth0">>, Ip2, ScenarioCount, 1000)

\* the scenario's connection lists: the links pc1 - switch1 and switch1 - pc2,
\* in either order and with either endpoint order
ScenarioConnectionLists ==
    UNION { { <<a, b>>, <<b, a>> } :
              a \in {LinkPc1Switch1, Swapped(LinkPc1Switch1)},
              b \in {LinkSwitch1Pc2, Swapped(LinkSwitch1Pc2)} }

\* the scenario's device dictionaries: pc1, switch1 and pc2 in any order
ScenarioDeviceDicts == { d \in DeviceDicts : Len(d) = 3 }

\* lines 15-27 and 255-256
InitWith(device_dicts, connection_lists) ==
    /\ devices \in device_dicts
    /\ connections \in connection_lists
    /\ arp_table = [d \in DeviceIds(devices) |-> <<>>]
    /\ events = <<>>
    /\ results = <<>>
    /\ clock = 0
    /\ pc = "loop"
    /\ exc = ""
    /\ calls = <<>>
    /\ switch = ClSwitch

Init == InitWith(DeviceDicts, ConnectionLists(MaxConns))

ScenarioInit == InitWith(ScenarioDeviceDicts, ScenarioConnectionLists)

\* every event handled as a ping
IsPingAlways(event) == TRUE

\* line 259
IsPing(event) == event.type = "ping"

\* lines 258-261: one iteration of the loop, for the next event of the list
LoopStep(event, lost, rtt) ==
    /\ pc = "loop"
    /\ events' = Append(events, event)
    /\ clock' = clock + 1
    /\ UNCHANGED <<devices, connections, calls, switch>>
    /\ IF IsPing(event)
       THEN LET out == simulate_ping(devices, connections, arp_table, event,
                                     lost, rtt, clock + 1)
            IN  /\ arp_table' = out.arp_table
                /\ IF out.kind = "raise"
                   THEN /\ pc' = "raised"
                        /\ exc' = out.exc
                        /\ UNCHANGED results
                   ELSE /\ results' = Append(results, out.result)
                        /\ UNCHANGED <<pc, exc>>
       ELSE UNCHANGED <<arp_table, results, pc, exc>>

\* the loop over an event list of up to MaxEvents events
RunEvent ==
    /\ Len(events) < MaxEvents
    /\ \E event \in PingEvents(Len(events) + 1) \cup OtherEvents(Len(events) + 1) :
         \E lost \in [1..event.count -> BOOLEAN], rtt \in [1..event.count -> RttDraws] :
            LoopStep(event, lost, rtt)

\* the loop over a list of one ping event
RunSinglePing ==
    /\ Len(events) < 1
    /\ \E event \in SinglePingEvents(1) :
         \E lost \in [1..event.count -> BOOLEAN], rtt \in [1..event.count -> RttDraws] :
            LoopStep(event, lost, rtt)

\* the loop over the scenario's event list
RunScenario ==
    /\ Len(events) < 1
    /\ \E lost \in [1..ScenarioCount -> BOOLEAN], rtt \in [1..ScenarioCount -> RttDraws] :
         LoopStep(ScenarioEvent(1), lost, rtt)

\* line 263: the list is exhausted
Return ==
    /\ pc = "loop"
    /\ pc' = "returned"
    /\ UNCHANGED <<devices, connections, arp_table, events, results, clock, exc,
                   calls, switch>>

Next == RunEvent \/ Return

Spec == Init /\ [][Next]_vars

PingNext == RunSinglePing \/ Return

PingSpec == Init /\ [][PingNext]_vars

ScenarioNext == RunScenario \/ Return

ScenarioSpec == ScenarioInit /\ [][ScenarioNext]_vars

(***************************************************************************)
(* get_network_path called on its own.                                     *)
(*                                                                         *)
(* The connection list is loaded as it is written (main.py, lines 282-283):*)
(* nothing compares its endpoints with each other or with the devices.     *)
(***************************************************************************)
\* longest of the short connection lists
MaxPathConns == 3

\* a connection from pc1 to pc1
LinkPc1Pc1 == Connection(<<"pc1", "eth0">>, <<"pc1", "eth1">>)

PathLinks == Links \cup {LinkPc1Pc1}

\* the id of the i-th device of a chain
Node(i) == "n" \o ToString(i)

\* the chain n1 - n2 - ... of hops links, the link at n1 last in the list, so
\* that the first connection that has a device of the chain at one end leads
\* away from n1
Chain(hops) ==
    [i \in 1..hops |-> Connection(<<Node(hops - i + 1), "eth1">>,
                                  <<Node(hops - i + 2), "eth0">>)]

\* chains around the bound of line 210
ChainHops == {MaxPathLen - 2, MaxPathLen - 1, MaxPathLen, MaxPathLen + 1}

PathConnectionLists ==
    UNION { [1..n -> PathLinks] : n \in 0..MaxPathConns }
        \cup { Chain(hops) : hops \in ChainHops }

\* the device ids at the ends of a connection
EndsOf(conn) == {netid_to_id(conn.from_interface), netid_to_id(conn.to_interface)}

\* the device ids get_network_path is called with: for a short list every
\* device of the topology and one that is not in it, for a chain the devices
\* of its first and last links
PathIds(conns) ==
    IF Len(conns) > MaxPathConns
    THEN EndsOf(conns[1]) \cup EndsOf(conns[Len(conns)])
    ELSE {"pc1", "pc2", "switch1", "pc9"}

PathInit == InitWith({<<Pc1, Pc2, Switch1>>}, PathConnectionLists)

\* a call of get_network_path(source_id, dest_id) begins
CallPath ==
    /\ calls = <<>>
    /\ \E source_id \in PathIds(connections), dest_id \in PathIds(connections) :
          calls' = <<PathCall(source_id, dest_id)>>
    /\ UNCHANGED <<devices, connections, arp_table, events, results, clock, pc, exc,
                   switch>>

\* lines 194-211: the while test holds and the body runs once
IteratePath ==
    /\ calls # <<>>
    /\ calls[1].pc = "while"
    /\ calls[1].current_id # calls[1].dest_id
    /\ calls' = <<PathStep(connections, calls[1])>>
    /\ UNCHANGED <<devices, connections, arp_table, events, results, clock, pc, exc,
                   switch>>

\* lines 194 and 213: the while test fails and the path is returned
ReturnPath ==
    /\ calls # <<>>
    /\ calls[1].pc = "while"
    /\ calls[1].current_id = calls[1].dest_id
    /\ calls' = <<PathStep(connections, calls[1])>>
    /\ UNCHANGED <<devices, connections, arp_table, events, results, clock, pc, exc,
                   switch>>

PathNext == CallPath \/ IteratePath \/ ReturnPath

PathSpec == PathInit /\ [][PathNext]_vars

\* the interpreter runs a call that has begun until it returns
PathFairSpec == PathSpec /\ WF_vars(IteratePath \/ ReturnPath)

(***************************************************************************)
(* resolve_arp called on its own.                                          *)
(***************************************************************************)
\* number of calls of resolve_arp
MaxArpCalls == 2

\* every (device id, interface) of the topology
ArpSources(devs) ==
    UNION { { Found(devs[d].id, devs[d].interfaces[i]) :
                i \in DOMAIN devs[d].interfaces } : d \in DOMAIN devs }

\* one call of resolve_arp(source_device_id, source_interface, target_ip)
CallResolveArp ==
    /\ Len(calls) < MaxArpCalls
    /\ \E source \in ArpSources(devices), target_ip \in DestinationIps :
          LET out == resolve_arp(devices, arp_table, source.device_id,
                                 source.interface, target_ip, clock + 1)
          IN  /\ arp_table' = out.arp_table
              /\ calls' = Append(calls,
                                 [method |-> "resolve_arp",
                                  source_device_id |-> source.device_id,
                                  target_ip |-> target_ip, kind |-> out.kind,
                                  mac |-> out.mac, exc |-> out.exc])
    /\ clock' = clock + 1
    /\ UNCHANGED <<devices, connections, events, results, pc, exc, switch>>

ArpInit == InitWith(DeviceDicts, {<<>>})

ArpNext == CallResolveArp

ArpSpec == ArpInit /\ [][ArpNext]_vars

(***************************************************************************)
(* cl.py: calls of the Switch's methods, as in its example usage (lines    *)
(* 155-175), by two hosts that give their own addresses.                   *)
(***************************************************************************)
\* number of calls of the Switch's methods
MaxSwitchCalls == 3

\* the hosts on the switch: each (ip, mac) pair is one host's own
SwitchHosts == { [ip |-> Ip1, mac |-> Mac1], [ip |-> Ip2, mac |-> Mac2] }

\* a valid port of each host and a port the switch does not have
SwitchPorts == {1, 2, 3}

SwitchCall(method, src, dst) ==
    [method |-> method, src_ip |-> src.ip, dst_ip |-> dst.ip,
     src_mac |-> src.mac, dst_mac |-> dst.mac]

\* what is left alone by a call of a method of the Switch
SwitchFrame ==
    UNCHANGED <<devices, connections, arp_table, events, results, clock, pc, exc>>

\* switch.connect_device(port, mac_address)
ConnectDevice ==
    /\ Len(calls) < MaxSwitchCalls
    /\ \E port \in SwitchPorts, host \in SwitchHosts :
          /\ switch' = connect_device(switch, port, host.mac)
          /\ calls' = Append(calls, [method |-> "connect_device", port |-> port,
                                     mac_address |-> host.mac])
    /\ SwitchFrame

\* switch.handle_arp_request(src_ip, dst_ip, src_mac)
HandleArpRequest ==
    /\ Len(calls) < MaxSwitchCalls
    /\ \E src \in SwitchHosts, dst \in SwitchHosts :
          /\ switch' = handle_arp_request(switch, src.ip, dst.ip, src.mac)
          /\ calls' = Append(calls, SwitchCall("handle_arp_request", src, dst))
    /\ SwitchFrame

\* switch.handle_arp_reply(src_ip, dst_ip, src_mac, dst_mac)
HandleArpReply ==
    /\ Len(calls) < MaxSwitchCalls
    /\ \E src \in SwitchHosts, dst \in SwitchHosts :
          /\ switch' = handle_arp_reply(switch, src.ip, dst.ip, src.mac, dst.mac)
          /\ calls' = Append(calls, SwitchCall("handle_arp_reply", src, dst))
    /\ SwitchFrame

\* switch.send_arp_reply(src_ip, dst_ip, src_mac, dst_mac)
SendArpReply ==
    /\ Len(calls) < MaxSwitchCalls
    /\ \E src \in SwitchHosts, dst \in SwitchHosts :
          /\ switch' = send_arp_reply(switch, src.ip, dst.ip, src.mac, dst.mac)
          /\ calls' = Append(calls, SwitchCall("send_arp_reply", src, dst))
    /\ SwitchFrame

\* switch.forward_packet(src_ip, dst_ip, src_mac, dst_mac)
ForwardPacket ==
    /\ Len(calls) < MaxSwitchCalls
    /\ \E src \in SwitchHosts, dst \in SwitchHosts :
          /\ switch' = forward_packet(switch, src.ip, dst.ip, src.mac, dst.mac)
          /\ calls' = Append(calls, SwitchCall("forward_packet", src, dst))
    /\ SwitchFrame

SwitchInit == InitWith({<<Pc1, Pc2>>}, {<<>>})

SwitchNext ==
    ConnectDevice \/ HandleArpRequest \/ HandleArpReply \/ SendArpReply \/ ForwardPacket

SwitchSpec == SwitchInit /\ [][SwitchNext]_vars

(***************************************************************************)
(* Vocabulary of the properties.                                           *)
(***************************************************************************)
\* the event of the loop step just taken
LastEvent == events[Len(events)]

LastResult == results[Len(results)]

\* a transition that is one iteration of the event loop
Stepped == Len(events') = Len(events) + 1

PingIndexes(evs) == { i \in DOMAIN evs : evs[i].type = "ping" }

RECURSIVE PingIds(_)
\* the ids of the events of type ping, in list order
PingIds(evs) ==
    IF evs = <<>> THEN <<>>
    ELSE IF evs[Len(evs)].type = "ping"
         THEN Append(PingIds(SubSeq(evs, 1, Len(evs) - 1)), evs[Len(evs)].id)
         ELSE PingIds(SubSeq(evs, 1, Len(evs) - 1))

ResultIds(res) == [i \in DOMAIN res |-> res[i].event_id]

\* the interfaces of the topology named by an interface reference
InterfacesNamed(netid) ==
    { x \in UNION { {d} \X DOMAIN devices[d].interfaces : d \in DOMAIN devices } :
        <<devices[x[1]].id, devices[x[1]].interfaces[x[2]].name>> = netid }

\* the reference names an interface of a device of the topology
SourceExists(event) == InterfacesNamed(event.source_interface) # {}

\* the reference names a host interface (one with a mac and an ip)
SourceIsHostInterface(event) ==
    \E x \in InterfacesNamed(event.source_interface) :
        {"mac", "ip"} \subseteq DOMAIN devices[x[1]].interfaces[x[2]]

\* the devices owning an ip address
OwnersOf(ip) ==
    { devices[d].id : d \in { d \in DOMAIN devices :
        \E i \in DOMAIN devices[d].interfaces :
            /\ "ip" \in DOMAIN devices[d].interfaces[i]
            /\ devices[d].interfaces[i].ip = ip } }

HasDetails(result) == "details" \in DOMAIN result

HasError(result) == "error" \in DOMAIN result

\* the binary64 value x equals the rational p / q exactly
FloatIsRational(x, p, q) ==
    IF x.m = <<>> THEN p = 0
    ELSE /\ x.e <= 0
         /\ BigMulSmall(x.m, q) = BigShl(BigFromNat(p), 0 - x.e)

\* the binary64 value x is within 2^(-t) of the rational p / q
FloatNearRational(x, p, q, t) ==
    IF x.m = <<>> THEN p = 0
    ELSE /\ x.e <= 0 - t
         /\ LET a   == BigMulSmall(x.m, q)
                b   == BigShl(BigFromNat(p), 0 - x.e)
                tol == BigShl(BigFromNat(q), 0 - x.e - t)
            IN  /\ ~BigLess(BigAdd(b, tol), a)
                /\ ~BigLess(BigAdd(a, tol), b)

(***************************************************************************)
(* Properties.                                                             *)
(***************************************************************************)
\* C1: in the topology pc1 - switch1 - pc2 (the two connections in either
\* list order and with either endpoint order), the ping event from pc1.eth0
\* to the address of pc2 with count 5 yields a result with packets_sent = 5
\* and path_taken = [pc1, switch1, pc2].
C1_ScenarioPath ==
    Len(events) = 1 =>
        /\ pc # "raised"
        /\ Len(results) = 1
        /\ HasDetails(results[1])
        /\ results[1].details.packets_sent = ScenarioCount
        /\ results[1].details.path_taken = <<"pc1", "switch1", "pc2">>

\* C2: for every topology, switches included, a ping event whose source
\* interface exists and whose destination_ip no interface owns gets a result
\* with status failed and the destination-unreachable error, without a
\* details block, and the ARP cache is left as it was.
C2_UnreachableDestinationFails ==
    [][(/\ Stepped
        /\ LastEvent'.type = "ping"
        /\ SourceExists(LastEvent')
        /\ OwnersOf(LastEvent'.destination_ip) = {})
       => /\ pc' = "loop"
          /\ Len(results') = Len(results) + 1
          /\ LastResult'.event_id = LastEvent'.id
          /\ LastResult'.status = "failed"
          /\ HasError(LastResult')
          /\ LastResult'.error = "Destination IP not reachable"
          /\ ~HasDetails(LastResult')
          /\ arp_table' = arp_table]_vars

\* C3: a ping event whose source_interface names a device that is not in the
\* topology, or a known device without an interface of that name, gets a
\* failed result with the source-interface-not-found error instead of an
\* exception, and nothing after the source lookup is executed.
C3_MissingSourceFails ==
    [][(/\ Stepped
        /\ LastEvent'.type = "ping"
        /\ ~SourceExists(LastEvent'))
       => /\ pc' = "loop"
          /\ Len(results') = Len(results) + 1
          /\ LastResult'.event_id = LastEvent'.id
          /\ LastResult'.status = "failed"
          /\ HasError(LastResult')
          /\ LastResult'.error = "Source interface not found"
          /\ arp_table' = arp_table]_vars

\* C4: for every event list simulate_network_events runs to completion with
\* exactly one result for every event of type ping: no per-event condition
\* raises past the event loop.
C4_RunsToCompletion ==
    /\ pc # "raised"
    /\ Len(results) = Cardinality(PingIndexes(events))

\* C5: the result list is the event list restricted to the events of type
\* ping, in the same order (the i-th result carries the id of the i-th ping
\* event); an event of another type adds no result, raises nothing and
\* leaves the ARP cache as it was.
C5_ResultsFollowPingEvents ==
    [][Stepped =>
        /\ pc' # "raised" => ResultIds(results') = PingIds(events')
        /\ LastEvent'.type # "ping" =>
              /\ results' = results
              /\ arp_table' = arp_table
              /\ pc' = "loop"
              /\ exc' = exc]_vars

\* C5 witness: a list of an event of another type followed by a ping event
\* was run to its end and gave the one result of the ping event.
C5_Witness ==
    /\ pc = "returned"
    /\ Len(events) = 2
    /\ events[1].type = "traceroute"
    /\ events[2].type = "ping"
    /\ ResultIds(results) = <<2>>

\* C6: a ping event that passes the source lookup, the destination lookup
\* and ARP resolution with count > 0 has status success if and only if
\* packets_received >= 1, and failed if and only if every packet was lost;
\* a partially lost run reports success.
C6_SuccessIffReceived ==
    /\ \A i \in DOMAIN results :
          HasDetails(results[i]) =>
              /\ results[i].details.packets_received \in 0..results[i].details.packets_sent
              /\ results[i].status = "success" <=> results[i].details.packets_received >= 1
              /\ results[i].status = "failed" <=> results[i].details.packets_received = 0
    /\ (/\ Len(events) = 1
        /\ events[1].count > 0
        /\ SourceIsHostInterface(events[1])
        /\ get_interface_by_ip(devices, events[1].destination_ip).kind = "value")
       => /\ Len(results) = 1
          /\ HasDetails(results[1])

\* C6 witness: a run with 0 < received < sent, reported as success.
C6_Witness ==
    /\ Len(results) = 1
    /\ results[1].details.packets_received > 0
    /\ results[1].details.packets_received < results[1].details.packets_sent
    /\ results[1].status = "success"

\* the source device and the device owning the destination of an event have
\* no route between them in the connection list
NoRoute(event) ==
    /\ netid_to_id(event.source_interface) \in DeviceIds(devices)
    /\ \E d \in OwnersOf(event.destination_ip) :
          get_network_path(connections, netid_to_id(event.source_interface), d) = <<>>

\* C7: when the source and destination devices exist but the connection list
\* gives no route between them, the ping (count > 0, in the specification
\* text's scenario) still gives a details block with path_taken = [] and a
\* status decided by the packet loss draws alone: the empty path never makes
\* the result failed and never yields an error.
C7_NoRouteIsNoError ==
    (Len(events) = 1 /\ NoRoute(events[1])) =>
        /\ Len(results) = 1 =>
              /\ HasDetails(results[1])
              /\ ~HasError(results[1])
              /\ results[1].details.path_taken = <<>>
              /\ results[1].status =
                    IF \E k \in DOMAIN results[1].details.icmp_packets :
                          results[1].details.icmp_packets[k].success
                    THEN "success" ELSE "failed"
        /\ (/\ events[1].count > 0
            /\ SourceIsHostInterface(events[1])
            /\ get_interface_by_ip(devices, events[1].destination_ip).kind = "value")
           => Len(results) = 1

\* C7 witness: a successful ping between two devices without a route.
C7_Witness ==
    /\ Len(events) = 1
    /\ NoRoute(events[1])
    /\ netid_to_id(events[1].source_interface) \notin OwnersOf(events[1].destination_ip)
    /\ Len(results) = 1
    /\ results[1].status = "success"
    /\ results[1].details.path_taken = <<>>

\* C8: a ping event with count = 0 whose source and destination resolve
\* gives a defined result and never ends in an unhandled fault.
C8_CountZeroIsDefined ==
    (/\ Len(events) >= 1
     /\ LastEvent.type = "ping"
     /\ LastEvent.count = 0
     /\ SourceIsHostInterface(LastEvent)
     /\ get_interface_by_ip(devices, LastEvent.destination_ip).kind = "value")
    => /\ pc # "raised"
       /\ Len(results) = Cardinality(PingIndexes(events))
       /\ LastResult.event_id = LastEvent.id

\* the results with a details block and packets_sent > 0, each with the
\* event it answers (the i-th result answers the i-th ping event)
SentResults ==
    { i \in DOMAIN results :
        HasDetails(results[i]) /\ results[i].details.packets_sent > 0 }

\* the event list position of the i-th ping event
PingPosition(evs, i) ==
    CHOOSE k \in PingIndexes(evs) :
        Cardinality({ j \in PingIndexes(evs) : j <= k }) = i

\* C9 as stated: for every result with a details block and packets_sent > 0,
\* packets_sent = event.count, 0 <= packets_received <= packets_sent,
\* loss_percentage = (sent - received) * 100 / sent, and
\* loss_percentage + received / sent * 100 = 100.
C9_LossIsExact ==
    \A i \in SentResults :
        LET d == results[i].details
        IN  /\ d.packets_sent = events[PingPosition(events, i)].count
            /\ d.packets_received \in 0..d.packets_sent
            /\ FloatIsRational(d.loss_percentage,
                               (d.packets_sent - d.packets_received) * 100,
                               d.packets_sent)
            /\ FloatAdd(d.loss_percentage,
                        FloatMulSmall(IntTrueDiv(d.packets_received, d.packets_sent), 100))
               = FloatFromNat(100)

\* C9 amended: for every result with a details block and packets_sent > 0,
\* packets_sent = event.count, 0 <= packets_received <= packets_sent, and in
\* binary64 arithmetic loss_percentage is within 2^(-45) of
\* (sent - received) * 100 / sent, and loss_percentage + received / sent * 100
\* is within 2^(-45) of 100 (2^(-45) bounds the rounding error of the
\* operations of line 175 on values of at most 100).
C9_LossWithinRounding ==
    \A i \in SentResults :
        LET d == results[i].details
        IN  /\ d.packets_sent = events[PingPosition(events, i)].count
            /\ d.packets_received \in 0..d.packets_sent
            /\ FloatNearRational(d.loss_percentage,
                                 (d.packets_sent - d.packets_received) * 100,
                                 d.packets_sent, 45)
            /\ FloatNearRational(
                   FloatAdd(d.loss_percentage,
                            FloatMulSmall(IntTrueDiv(d.packets_received, d.packets_sent),
                                          100)),
                   100, 1, 45)

\* C9 witness: three packets sent, one received: the loss is 66.66666666666666
\* and the sum with the received share is 99.99999999999999.
C9_Witness ==
    /\ Len(results) = 1
    /\ results[1].details.packets_sent = 3
    /\ results[1].details.packets_received = 1
    /\ ~FloatIsRational(results[1].details.loss_percentage, 200, 3)
    /\ FloatLess(FloatAdd(results[1].details.loss_percentage,
                          FloatMulSmall(IntTrueDiv(1, 3), 100)),
                 FloatFromNat(100))

\* a loop step for a ping event whose source device has a complete cache
\* entry for the event's destination_ip
CacheHitStep ==
    /\ Stepped
    /\ LastEvent'.type = "ping"
    /\ SourceExists(LastEvent')
    /\ LastEvent'.destination_ip \in
           DOMAIN arp_table[netid_to_id(LastEvent'.source_interface)]
    /\ arp_table[netid_to_id(LastEvent'.source_interface)]
                [LastEvent'.destination_ip].is_complete

\* C10: resolve_arp for a (device, ip) pair with a complete cache entry
\* returns the stored hardware address and changes nothing: timestamp, mac
\* and completeness flag of the entry, and every other entry, are the same
\* after the call as before, also when the call is repeated.
C10_CacheHitChangesNothing ==
    [][/\ \A d \in DeviceIds(devices) : \A ip \in DOMAIN arp_table[d] :
            arp_table[d][ip].is_complete =>
                LET source_interface == DeviceById(devices, d).interfaces[1]
                    once  == resolve_arp(devices, arp_table, d, source_interface, ip,
                                         clock + 1)
                    twice == resolve_arp(devices, once.arp_table, d, source_interface,
                                         ip, clock + 2)
                IN  /\ once.kind = "value"
                    /\ once.mac = arp_table[d][ip].mac
                    /\ once.arp_table = arp_table
                    /\ twice = once
       /\ CacheHitStep =>
            /\ arp_table' = arp_table
            /\ pc' # "raised" =>
                  \A k \in DOMAIN LastResult'.details.icmp_packets :
                      LastResult'.details.icmp_packets[k].echo_request.dest_mac =
                          arp_table[netid_to_id(LastEvent'.source_interface)]
                                   [LastEvent'.destination_ip].mac]_vars

\* C10 witness: the second of two ping events of one source to one address
\* was answered from the cache: the entry still carries the time of the first.
C10_Witness ==
    /\ Len(events) = 2
    /\ Len(results) = 2
    /\ events[1].source_interface = events[2].source_interface
    /\ events[1].destination_ip = events[2].destination_ip
    /\ HasDetails(results[2])
    /\ clock = 2
    /\ arp_table[netid_to_id(events[2].source_interface)]
                [events[2].destination_ip].timestamp = 1

\* C11: over any sequence of events of one run, an ARP cache entry for a
\* (device, target ip) is written at most once: once present it is never
\* removed, never overwritten and never resolved again (its mac, timestamp
\* and completeness flag stay as written while the clock advances), so the
\* set of cache entries only grows.
C11_CacheOnlyGrows ==
    [][\A d \in DOMAIN arp_table : \A ip \in DOMAIN arp_table[d] :
          /\ d \in DOMAIN arp_table'
          /\ ip \in DOMAIN arp_table'[d]
          /\ arp_table'[d][ip] = arp_table[d][ip]]_vars

\* C11 witness: one device resolved two addresses in two events; the entry
\* of the first event is still there, as written, after the second write.
C11_Witness ==
    /\ Len(events) = 2
    /\ events[1].source_interface = events[2].source_interface
    /\ events[1].destination_ip # events[2].destination_ip
    /\ LET cache == arp_table[netid_to_id(events[1].source_interface)]
       IN  /\ DOMAIN cache = {events[1].destination_ip, events[2].destination_ip}
           /\ cache[events[1].destination_ip].timestamp = 1
           /\ cache[events[2].destination_ip].timestamp = 2

\* the address of a call is owned by no interface of the topology
TargetUnowned(call) == OwnersOf(call.target_ip) = {}

\* C12: a resolve_arp call for a target ip owned by no interface returns the
\* failure value (None) and leaves the ARP cache exactly as it was: no entry
\* is inserted for that ip, so every later call for the same (device, ip)
\* does the lookup again and fails again.
C12_FailureIsNotCached ==
    [][Len(calls') = Len(calls) + 1 /\ TargetUnowned(calls'[Len(calls')]) =>
          /\ calls'[Len(calls')].kind = "value"
          /\ calls'[Len(calls')].mac = NoneStr
          /\ arp_table' = arp_table]_vars

\* the call of get_network_path, once it has returned
Returned == calls # <<>> /\ calls[1].pc = "returned"

\* C13: for every topology and every device id a, get_network_path(a, a)
\* returns the one-element sequence [a] without reading the connection list
\* (the call returns at its first step, the body of the loop never runs),
\* also when a has no connections or sits on a cycle.
C13_SelfPathIsSingleton ==
    [][calls' # <<>> /\ calls'[1].source_id = calls'[1].dest_id =>
          /\ calls # <<>> => calls'[1].pc = "returned"
          /\ calls'[1].pc = "returned" => calls'[1].ret = <<calls'[1].source_id>>]_vars

\* C13 witness: pc1 sits on the cycle pc1 - switch1 - pc2 - pc1 and the call
\* for (pc1, pc1) has returned.
C13_Witness ==
    /\ Returned
    /\ calls[1].source_id = "pc1"
    /\ calls[1].dest_id = "pc1"
    /\ {connections[i] : i \in DOMAIN connections} =
           {LinkPc1Switch1, LinkSwitch1Pc2, LinkPc2Pc1}

\* the device of the interface a result names as its source
SourceDeviceOf(result) == netid_to_id(result.details.source)

\* the device that owns the destination address of a result
DestDeviceOf(result) == CHOOSE d \in OwnersOf(result.details.destination_ip) : TRUE

C15_NoSelfConnection ==
    calls # <<>> =>
        \A i \in DOMAIN connections :
            netid_to_id(connections[i].from_interface) #
                netid_to_id(connections[i].to_interface)

\* C16: for every topology that mixes hosts and switches, in any device
\* order, get_interface_by_ip(ip) returns the (device id, interface) of the
\* host interface that owns ip when there is one and None otherwise, and
\* scanning a switch's interfaces never makes the lookup fault: a ping event
\* from a host interface never ends in an AttributeError.
C16_LookupNeverFaults ==
    events # <<>> /\ IsPing(LastEvent) /\ SourceIsHostInterface(LastEvent) =>
        LET ip == LastEvent.destination_ip
            found == get_interface_by_ip(devices, ip)
        IN  /\ OwnersOf(ip) # {} =>
                  /\ found.kind = "value"
                  /\ found.device_id \in OwnersOf(ip)
                  /\ found.interface.ip = ip
            /\ OwnersOf(ip) = {} => found.kind = "none"
            /\ ~(pc = "raised" /\ exc = "AttributeError")

\* the positions of the connections that have device x at one end
Touching(conns, x) == { j \in DOMAIN conns : x \in EndsOf(conns[j]) }

\* the other end of the first connection in list order that has x at one end
FirstHop(conns, x) ==
    LET first == CHOOSE j \in Touching(conns, x) : \A k \in Touching(conns, x) : j <= k
    IN  IF EndsOf(conns[first]) = {x} THEN x
        ELSE CHOOSE y \in EndsOf(conns[first]) : y # x

\* w starts at source_id and every next device is the first-match hop
IsFirstMatchWalk(conns, w, source_id) ==
    /\ w # <<>>
    /\ w[1] = source_id
    /\ \A i \in 1..(Len(w) - 1) :
          /\ Touching(conns, w[i]) # {}
          /\ w[i + 1] = FirstHop(conns, w[i])

\* the walk w cannot go on: its last device has no connection (dead end) or
\* its next hop is already in w (cycle)
WalkIsStuck(conns, w) ==
    \/ Touching(conns, w[Len(w)]) = {}
    \/ \E i \in DOMAIN w : w[i] = FirstHop(conns, w[Len(w)])

\* C17: get_network_path returns a non-empty path ending at the destination
\* exactly when the first-match walk reaches the destination, and the empty
\* sequence exactly when the walk meets a device with no connection, a next
\* hop already in the path, or exceeds the hop bound (more than MaxPathLen
\* hops); the next hop is always the other endpoint of the first connection
\* in list order that has the device as an endpoint.
C17_FirstMatchWalk ==
    Returned =>
        LET walk == calls[1].path
            reached == walk[Len(walk)] = calls[1].dest_id
        IN  /\ IsFirstMatchWalk(connections, walk, calls[1].source_id)
            /\ calls[1].ret # <<>> <=> reached
            /\ calls[1].ret # <<>> => calls[1].ret = walk
            /\ calls[1].ret = <<>> <=>
                  /\ ~reached
                  /\ \/ WalkIsStuck(connections, walk)
                     \/ Len(walk) - 1 > MaxPathLen

\* C20: the runaway guard rejects only walks longer than the bound: a
\* first-match walk that reaches the destination after at most MaxPathLen
\* hops (a path of up to MaxPathLen + 1 device ids) is returned as the path,
\* and a walk is given up for its length only when it needs more than
\* MaxPathLen hops.
C20_GuardRejectsOnlyLongerWalks ==
    Returned =>
        LET walk == calls[1].path
        IN  /\ walk[Len(walk)] = calls[1].dest_id /\ Len(walk) - 1 <= MaxPathLen
                => calls[1].ret = walk
            /\ calls[1].ret = <<>> /\ ~WalkIsStuck(connections, walk)
                => Len(walk) - 1 > MaxPathLen

\* the records of the packets that got their reply, in order
SuccessfulRecords(result) ==
    SelectSeq(result.details.icmp_packets, LAMBDA packet : packet.success)

\* C18: in every details block the icmp_packets list has exactly event.count
\* records whose sequence fields are 0, 1, ..., count - 1 in that order;
\* every record has an echo_request; a record has an echo_reply and a
\* non-null rtt if and only if its success flag is true; and
\* packets_received equals the number of records with success true.
C18_IcmpRecords ==
    \A r \in DOMAIN results : HasDetails(results[r]) =>
        LET packets == results[r].details.icmp_packets
            event == events[PingPosition(events, r)]
        IN  /\ Len(packets) = event.count
            /\ \A k \in DOMAIN packets :
                  /\ packets[k].sequence = k - 1
                  /\ "echo_request" \in DOMAIN packets[k]
                  /\ "echo_reply" \in DOMAIN packets[k] <=> packets[k].success
                  /\ packets[k].rtt # None <=> packets[k].success
            /\ results[r].details.packets_received =
                   Cardinality({ k \in DOMAIN packets : packets[k].success })

\* C18 witness: a ping of MaxPingCount packets lost its first packet and got
\* a reply to its last.
C18_Witness ==
    /\ results # <<>>
    /\ HasDetails(results[1])
    /\ Len(results[1].details.icmp_packets) = MaxPingCount
    /\ ~results[1].details.icmp_packets[1].success
    /\ results[1].details.icmp_packets[MaxPingCount].success

\* the rtt values of the records of the packets that got their reply
RecordedRtts(result) ==
    [k \in DOMAIN SuccessfulRecords(result) |-> SuccessfulRecords(result)[k].rtt]

\* x <= y * (1 + n * 2^-52), for binary64 values x and y above zero
FloatLeqWithin(x, y, n) ==
    LET low == IF x.e < y.e THEN x.e ELSE y.e
        xs  == BigShl(x.m, x.e - low + 52)
        ys  == BigAdd(BigShl(y.m, y.e - low + 52),
                      BigShl(BigMulSmall(y.m, n), y.e - low))
    IN  ~BigLess(ys, xs)

\* min and max are null exactly when nothing was received, and otherwise
\* the least and the greatest rtt of the successful records, inside the
\* RTT range
RttMinMaxOfRecords(result) ==
    LET stats == result.details.round_trip_time_ms
        rtts == RecordedRtts(result)
    IN  /\ (stats.min = None /\ stats.max = None /\ stats.avg = None)
               <=> result.details.packets_received = 0
        /\ result.details.packets_received = 0 =>
               stats.min = None /\ stats.max = None /\ stats.avg = None
        /\ result.details.packets_received > 0 =>
               /\ stats.min # None /\ stats.max # None /\ stats.avg # None
               /\ \E k \in DOMAIN rtts : stats.min = rtts[k]
               /\ \E k \in DOMAIN rtts : stats.max = rtts[k]
               /\ \A k \in DOMAIN rtts :
                      FloatLeq(stats.min, rtts[k]) /\ FloatLeq(rtts[k], stats.max)
               /\ FloatLeq(RttLow, stats.min)
               /\ FloatLeq(stats.max, RttHigh)

\* C19 as stated: in every details block the RTT min, max and avg are all
\* null exactly when packets_received = 0; otherwise they are computed over
\* the rtt values of the successful records only, with
\* lower bound <= min <= avg <= max <= upper bound of the RTT range.
C19_RttStatsOrdered ==
    \A r \in DOMAIN results : HasDetails(results[r]) =>
        /\ RttMinMaxOfRecords(results[r])
        /\ results[r].details.packets_received > 0 =>
               LET stats == results[r].details.round_trip_time_ms
               IN  FloatLeq(stats.min, stats.avg) /\ FloatLeq(stats.avg, stats.max)

\* C19 as amended: as C19, with avg between min and max up to the rounding
\* of the binary64 sum and division: min <= avg * (1 + n * 2^-52) and
\* avg <= max * (1 + n * 2^-52), n the number of packets received.
C19_RttStatsWithinRounding ==
    \A r \in DOMAIN results : HasDetails(results[r]) =>
        /\ RttMinMaxOfRecords(results[r])
        /\ results[r].details.packets_received > 0 =>
               LET stats == results[r].details.round_trip_time_ms
                   n == results[r].details.packets_received
               IN  /\ FloatLeqWithin(stats.min, stats.avg, n)
                   /\ FloatLeqWithin(stats.avg, stats.max, n)

\* C19 witness: three packets got their reply, each after the least rtt of
\* the range, and the average of the three is above their maximum.
C19_Witness ==
    /\ results # <<>>
    /\ HasDetails(results[1])
    /\ results[1].details.packets_received = 3
    /\ results[1].details.round_trip_time_ms.max = RttLow
    /\ FloatLess(results[1].details.round_trip_time_ms.max,
                 results[1].details.round_trip_time_ms.avg)

\* the hardware addresses of the interfaces that own an ip address
OwnerMacs(ip) ==
    UNION { { devices[d].interfaces[i].mac :
                i \in { i \in DOMAIN devices[d].interfaces :
                          /\ {"ip", "mac"} \subseteq DOMAIN devices[d].interfaces[i]
                          /\ devices[d].interfaces[i].ip = ip } } :
            d \in DOMAIN devices }

\* C21: after any sequence of events, every entry in the ARP cache is
\* complete, is stored under a device id that was the source device of some
\* earlier ping event and under a target ip owned by some interface of the
\* topology, and its mac is the hardware address of the interface that owns
\* that ip.
C21_CacheEntriesNameOwners ==
    \A d \in DOMAIN arp_table : \A ip \in DOMAIN arp_table[d] :
        /\ arp_table[d][ip].is_complete
        /\ arp_table[d][ip].ip = ip
        /\ \E k \in PingIndexes(events) :
              /\ netid_to_id(events[k].source_interface) = d
              /\ events[k].destination_ip = ip
        /\ OwnersOf(ip) # {}
        /\ arp_table[d][ip].mac \in OwnerMacs(ip)

\* C21 witness: after two ping events pc1 holds the address of pc2 and pc2
\* that of pc1.
C21_Witness ==
    /\ Len(events) = 2
    /\ DOMAIN arp_table["pc1"] = {Ip2}
    /\ DOMAIN arp_table["pc2"] = {Ip1}
    /\ arp_table["pc1"][Ip2].mac = Mac2
    /\ arp_table["pc2"][Ip1].mac = Mac1

\* the hardware address of the host that owns an ip address
MacOfHost(ip) == (CHOOSE host \in SwitchHosts : host.ip = ip).mac

\* the step is a call of handle_arp_request
RequestStep ==
    /\ Len(calls') = Len(calls) + 1
    /\ calls'[Len(calls')].method = "handle_arp_request"

\* C22: the switch's ARP table only ever maps an ip address to the hardware
\* address of the host that owns it: after any sequence of
\* handle_arp_request, handle_arp_reply and send_arp_reply calls with each
\* host's own (ip, mac), an ARP request answered from the table leaves every
\* existing mapping unchanged and stores neither the requester's mac under
\* the target's ip nor the target's mac under the requester's ip.
C22_SwitchTableMapsOwners ==
    [][/\ \A ip \in DOMAIN switch'.arp_table :
             switch'.arp_table[ip] = MacOfHost(ip)
       /\ RequestStep /\ calls'[Len(calls')].dst_ip \in DOMAIN switch.arp_table =>
             \A ip \in DOMAIN switch.arp_table :
                 switch'.arp_table[ip] = switch.arp_table[ip]]_vars

\* the step is the reply of target to requester, for a request of requester
\* that is in the buffer for target
ReplyToBuffered(requester, target) ==
    /\ Len(calls') = Len(calls) + 1
    /\ calls'[Len(calls')] = SwitchCall("handle_arp_reply", target, requester)
    /\ target.ip \in DOMAIN switch.packet_buffer
    /\ \E i \in DOMAIN switch.packet_buffer[target.ip] :
          switch.packet_buffer[target.ip][i] = <<requester.ip, requester.mac>>

\* the forward_packet calls made for packets of requester to target
ForwardsOf(sw, requester, target) ==
    { i \in DOMAIN sw.forwarded :
        /\ sw.forwarded[i].src_ip = requester.ip
        /\ sw.forwarded[i].dst_ip = target.ip }

\* C23: when the switch has buffered an ARP request from requester R for an
\* unknown target ip T, the later ARP reply of T to R (handle_arp_reply with
\* src_ip = T, dst_ip = R) forwards the buffered request for T, and each
\* buffered request is forwarded once.
C23_ReplyForwardsBuffered ==
    [][\A requester \in SwitchHosts, target \in SwitchHosts :
          ReplyToBuffered(requester, target) =>
              /\ Len(switch'.forwarded) > Len(switch.forwarded)
              /\ Cardinality(ForwardsOf(switch', requester, target)) =
                     Len(SelectSeq(switch.packet_buffer[target.ip],
                                   LAMBDA b : b = <<requester.ip, requester.mac>>))]_vars

\* the loop step just taken was for a ping event whose source interface has
\* a hardware address and whose destination lookup found an owner
PastDestinationLookup ==
    /\ Stepped
    /\ events'[Len(events')].type = "ping"
    /\ SourceIsHostInterface(events'[Len(events')])
    /\ get_interface_by_ip(devices, events'[Len(events')].destination_ip).kind = "value"

\* the interface an event names as its source
SourceInterfaceOf(event) ==
    LET x == CHOOSE x \in InterfacesNamed(event.source_interface) : TRUE
    IN  devices[x[1]].interfaces[x[2]]

\* the ways a ping event fails: one of the two classifications, or every
\* packet lost
FailsAsClassified(result) ==
    \/ /\ HasError(result)
       /\ result.error \in {"Source interface not found", "Destination IP not reachable"}
    \/ /\ HasDetails(result)
       /\ result.details.packets_received = 0

\* C24: the "ARP resolution failed" result is unreachable for interfaces with
\* non-empty hardware addresses: whenever simulate_ping gets past the
\* destination lookup, resolve_arp returns the owner's hardware address and
\* the cache holds it, so a failed result is either one of the
\* source-interface and destination-unreachable classifications or one with
\* every packet lost.
C24_ArpResolutionNeverFails ==
    [][/\ \A i \in DOMAIN results' :
             /\ HasError(results'[i]) => results'[i].error # "ARP resolution failed"
             /\ results'[i].status = "failed" => FailsAsClassified(results'[i])
       /\ PastDestinationLookup =>
             LET event == events'[Len(events')]
                 source_device_id == netid_to_id(event.source_interface)
                 resolved == resolve_arp(devices, arp_table, source_device_id,
                                         SourceInterfaceOf(event),
                                         event.destination_ip, clock')
             IN  /\ resolved.kind = "value"
                 /\ resolved.mac # NoneStr
                 /\ resolved.mac \in OwnerMacs(event.destination_ip)
                 /\ event.destination_ip \in DOMAIN arp_table'[source_device_id]
                 /\ arp_table'[source_device_id][event.destination_ip].mac = resolved.mac]_vars

\* C24 witness: a ping got past the destination lookup, the address was
\* resolved and cached, and the event failed with its one packet lost.
C24_Witness ==
    /\ Len(events) = 1
    /\ Len(results) = 1
    /\ results[1].status = "failed"
    /\ HasDetails(results[1])
    /\ results[1].details.packets_sent = 1
    /\ results[1].details.packets_received = 0
    /\ netid_to_id(events[1].source_interface) = "pc1"
    /\ Ip2 \in DOMAIN arp_table["pc1"]
    /\ arp_table["pc1"][Ip2].mac = Mac2

\* a sequence of device ids that starts with source_id, ends with dest_id,
\* holds no id twice and follows connections of the list
IsSimplePath(conns, w, source_id, dest_id) ==
    /\ w[1] = source_id
    /\ w[Len(w)] = dest_id
    /\ \A i \in DOMAIN w : \A j \in DOMAIN w : w[i] = w[j] => i = j
    /\ \A i \in 1..(Len(w) - 1) :
          \E k \in DOMAIN conns : EndsOf(conns[k]) = {w[i], w[i + 1]}

\* C25: every non-empty sequence returned by get_network_path(s, d) starts
\* with s, ends with d, contains no device id twice, and each pair of
\* consecutive ids is joined by a connection of the list; and the call
\* returns for every connection list, lists with cycles and
\* self-connections included.
C25_PathIsSimpleAndReturns ==
    /\ [](Returned /\ calls[1].ret # <<>> =>
             IsSimplePath(connections, calls[1].ret, calls[1].source_id, calls[1].dest_id))
    /\ (calls # <<>> ~> Returned)

\* C25 witness: in a list whose connections form a cycle the call for
\* (pc2, pc1) returned the path over the switch.
C25_Witness ==
    /\ Returned
    /\ \E k \in DOMAIN connections : connections[k] = LinkPc2Pc1
    /\ Len(calls[1].ret) = 3
    /\ calls[1].ret[2] = "switch1"

\* the cache cell (d, ip) is the same before and after the step
CellUnchanged(d, ip) ==
    /\ ip \in DOMAIN arp_table'[d] <=> ip \in DOMAIN arp_table[d]
    /\ ip \in DOMAIN arp_table[d] => arp_table'[d][ip] = arp_table[d][ip]

\* C26: simulating a ping event changes at most one ARP cache cell, the one
\* keyed by (source device of the event, event.destination_ip): the tables
\* of all other devices, the destination device's included, and all other
\* entries of the source device's table are unchanged, and the devices and
\* connections are never modified.
C26_OnlyTheSourceCellChanges ==
    [][/\ devices' = devices
       /\ connections' = connections
       /\ DOMAIN arp_table' = DOMAIN arp_table
       /\ Stepped =>
             LET event == events'[Len(events')]
             IN  \A d \in DOMAIN arp_table :
                   \A ip \in DOMAIN arp_table[d] \cup DOMAIN arp_table'[d] :
                      \/ /\ event.type = "ping"
                         /\ d = netid_to_id(event.source_interface)
                         /\ ip = event.destination_ip
                      \/ CellUnchanged(d, ip)]_vars

\* C26 witness: pc1 and then pc2 pinged the address of pc2; the second
\* event wrote into the table of pc2 and left the cell of pc1 as the first
\* event had written it.
C26_Witness ==
    /\ Len(events) = 2
    /\ netid_to_id(events[1].source_interface) = "pc1"
    /\ netid_to_id(events[2].source_interface) = "pc2"
    /\ DOMAIN arp_table["pc1"] = {Ip2}
    /\ DOMAIN arp_table["pc2"] = {Ip2}
    /\ arp_table["pc1"][Ip2].timestamp = 1
    /\ arp_table["pc2"][Ip2].timestamp = 2

====
